---- MODULE Spec2Model ----
(***************************************************************************)
(* Model of numpy_utility.py: the Gaussian field generators and their      *)
(* stacking wrappers, sie, place_tile_in and mosaic_vis.                    *)
(*                                                                         *)
(* Numbers.  Coordinates, sigma and dpix are integers counted in ticks,    *)
(* Q ticks to one coordinate unit, so that size/n_pix and dpix/2 are exact. *)
(* A field value is a pair <<num, den>> standing for num/den; <<0, 0>> is   *)
(* NaN (the result of 0/0).  A field that was not divided by its sum has    *)
(* den = ZUnit.  np.exp and erf are library functions, modelled by tables   *)
(* over quarter steps of their argument; np.exp underflows to 0 past        *)
(* ExpUnderflow and is positive before it, as in float32 arithmetic.        *)
(***************************************************************************)
EXTENDS Integers, Sequences, FiniteSets, TLC

VARIABLES op, pc, inp, out, exc, i, loc, Z, calls, nGrid, saved

vars == <<op, pc, inp, out, exc, i, loc, Z, calls, nGrid, saved>>

-----------------------------------------------------------------------------
(* Bounds of the model *)

MaxNPix == 3
MaxSize == 2
MaxStack == 3
MaxC == 5
MaxLen == 2
MaxBatch == 2
MaxTile == 2
MaxSlack == 2
MaxImgs == 5
MaxPad == 1

\* ticks per coordinate unit: divisible by 2*n_pix for every n_pix modelled
Q == 2 * 60

\* size=None, or size=s as <<s>>
None == <<>>
SizeArgs == {None} \cup {<<s>> : s \in 1..MaxSize}

\* centres (ticks): on a sample, between samples, 20 units off the grid
Centres == {0, Q \div 2, 20 * Q}
\* sigmas (ticks): 1/4, 1/2, 3/4, 1 and 2 units
SigmaArgs == {Q \div 4, Q \div 2, (3 * Q) \div 4, Q, 2 * Q}

NoResult == <<>>
NaN == <<0, 0>>
ZUnit == 10^6

-----------------------------------------------------------------------------
(* Arithmetic helpers *)

Abs(a) == IF a < 0 THEN -a ELSE a
Min2(a, b) == IF a < b THEN a ELSE b
Max2(a, b) == IF a < b THEN b ELSE a
CeilDiv(a, b) == (a + b - 1) \div b

RECURSIVE SumSeq(_)
SumSeq(s) == IF s = <<>> THEN 0 ELSE s[1] + SumSeq(Tail(s))

\* np.sum over a 2-D array of integers
SumField(F) == SumSeq([r \in 1..Len(F) |-> SumSeq(F[r])])

\* np.exp(-n/d) in units of 1/1000, the argument cut to quarter steps
ExpTable == <<1000, 778, 606, 472, 367, 286, 223, 173, 135, 105, 82, 63, 49,
              38, 30, 23, 18, 14, 11, 8, 6, 5, 4, 3, 2, 1, 1, 1>>
\* float32: exp(-t) rounds to 0 for t >= 104
ExpUnderflow == 104
ExpNeg(n, d) ==
    LET idx == (4 * n) \div d
    IN  IF idx >= 4 * ExpUnderflow THEN 0
        ELSE IF idx < Len(ExpTable) THEN ExpTable[idx + 1]
        ELSE 1

\* erf(a / (sqrt(2)*sigma)) in units of 1/1000, |a|/sigma cut to quarter steps
ErfTable == <<0, 197, 383, 547, 683, 789, 866, 920, 954, 976, 988, 994, 997,
              999, 1000>>
Erf(a, sigma) ==
    LET idx == (4 * Abs(a)) \div sigma
        v   == IF idx < Len(ErfTable) THEN ErfTable[idx + 1] ELSE 1000
    IN  IF a < 0 THEN -v ELSE v

-----------------------------------------------------------------------------
(* Coordinate grid: lines 9-13 and 35-39 *)

Deg(n_pix, size) == IF size = None THEN n_pix * Q ELSE size[1] * Q
Dpix(n_pix, size) == Deg(n_pix, size) \div n_pix

PixMinNoHalf(n_pix, size) == -(Deg(n_pix, size) \div 2)
PixMin(n_pix, size) == -(Deg(n_pix, size) \div 2) + Dpix(n_pix, size) \div 2
PixMax(n_pix, size) == Deg(n_pix, size) \div 2

\* np.arange(start, stop, step): ceil((stop-start)/step) samples
Arange(start, stop, step) ==
    LET len == IF stop > start THEN CeilDiv(stop - start, step) ELSE 0
    IN  [j \in 1..len |-> start + (j - 1) * step]

\* np.meshgrid(ax, ay): X varies along columns, Y along rows
Meshgrid(ax, ay) ==
    [Xm |-> [r \in 1..Len(ay) |-> [c \in 1..Len(ax) |-> ax[c]]],
     Ym |-> [r \in 1..Len(ay) |-> [c \in 1..Len(ax) |-> ay[r]]]]

Grid(n_pix, size) ==
    LET ax == Arange(PixMin(n_pix, size), PixMax(n_pix, size), Dpix(n_pix, size))
    IN  Meshgrid(ax, ax)

Negate(F) == [r \in DOMAIN F |-> [c \in DOMAIN F[r] |-> -F[r][c]]]

-----------------------------------------------------------------------------
(* Point-sampled Gaussian: lines 14-16 and 44-46 *)

\* dpix**2 * A, A = 1/(2*sigma**2*pi), in units of 1/1000
Amp(dpix, sigma) == (dpix * dpix * 159) \div (sigma * sigma)

\* one cell of dpix**2 * A * exp(-((Xm-x)**2 + (-Ym-y)**2) / d), units 1/ZUnit
PointCell(xm, ym, x, y, sigma, dpix) ==
    LET e == ExpNeg((xm - x) * (xm - x) + (-ym - y) * (-ym - y), 2 * sigma * sigma)
    IN  IF e = 0 THEN 0 ELSE Max2(1, Amp(dpix, sigma) * e)

PointField(G, x, y, sigma, dpix) ==
    [r \in DOMAIN G.Xm |-> [c \in DOMAIN G.Xm[r] |->
        PointCell(G.Xm[r][c], G.Ym[r][c], x, y, sigma, dpix)]]

\* a field left as computed
Plain(F) == [r \in DOMAIN F |-> [c \in DOMAIN F[r] |-> <<F[r][c], ZUnit>>]]

\* Zm /= np.sum(Zm)
DivideBySum(F) ==
    LET s == SumField(F)
    IN  [r \in DOMAIN F |-> [c \in DOMAIN F[r] |->
            IF s = 0 THEN NaN ELSE <<F[r][c], s>>]]

\* line 17: if(sigma<dpix/2)
RenormalizeLe(sigma, dpix) == 2 * sigma <= dpix
Renormalize(sigma, dpix) == 2 * sigma < dpix

make_gaussian(x, y, sigma, n_pix, size) ==
    LET dpix == Dpix(n_pix, size)
        G    == Grid(n_pix, size)
        Zm   == PointField(G, x, y, sigma, dpix)
    IN  [X |-> G.Xm, Y |-> Negate(G.Ym),
         Z |-> IF Renormalize(sigma, dpix) THEN DivideBySum(Zm) ELSE Plain(Zm)]

-----------------------------------------------------------------------------
(* Mass-integrated Gaussian: lines 31-47 *)

gaussian_mass(xi, yi, dx, dy, x, y, sigma) ==
    ( (Erf(xi - x + dx \div 2, sigma) - Erf(xi - x - dx \div 2, sigma))
    * (Erf(yi - y + dy \div 2, sigma) - Erf(yi - y - dy \div 2, sigma)) ) \div 4

\* line 40: if sigma<dpix
UseMassLe(sigma, dpix) == sigma <= dpix
UseMass(sigma, dpix) == sigma < dpix

make_gaussian_mass(x, y, sigma, n_pix, size) ==
    LET dpix == Dpix(n_pix, size)
        G    == Grid(n_pix, size)
        Yn   == Negate(G.Ym)
        Zm   == IF UseMass(sigma, dpix)
                THEN [r \in DOMAIN G.Xm |-> [c \in DOMAIN G.Xm[r] |->
                        gaussian_mass(G.Xm[r][c], Yn[r][c], dpix, dpix, x, y, sigma)]]
                ELSE PointField(G, x, y, sigma, dpix)
    IN  [X |-> G.Xm, Y |-> Yn, Z |-> Plain(Zm)]

-----------------------------------------------------------------------------
(* sie: lines 78-82 *)

\* y[np.arange(len(x)), x] = 1 on np.zeros((len(x), c)); columns are 0-based
HotColumnOff(xi) == xi + 1
HotColumn(xi) == xi

sie(x, c) ==
    [r \in 1..Len(x) |-> [col \in 0..(c - 1) |->
        IF col = HotColumn(x[r]) THEN 1 ELSE 0]]

-----------------------------------------------------------------------------
(* State machine: one call per behaviour *)

Init ==
    /\ op = "none"
    /\ pc = "idle"
    /\ inp = NoResult
    /\ out = NoResult
    /\ exc = "none"
    /\ i = 0
    /\ loc = <<>>
    /\ Z = <<>>
    /\ calls = <<>>
    /\ nGrid = 0
    /\ saved = {}

Return(name, args, result) ==
    /\ pc = "idle"
    /\ op' = name
    /\ inp' = args
    /\ out' = result
    /\ pc' = "returned"
    /\ UNCHANGED <<exc, i, loc, Z, calls, nGrid, saved>>

CallMakeGaussian ==
    \E x \in Centres, y \in Centres, sigma \in SigmaArgs,
       n_pix \in 1..MaxNPix, size \in SizeArgs :
        Return("make_gaussian",
               [x |-> x, y |-> y, sigma |-> sigma, n_pix |-> n_pix, size |-> size],
               make_gaussian(x, y, sigma, n_pix, size))

CallMakeGaussianMass ==
    \E x \in Centres, y \in Centres, sigma \in SigmaArgs,
       n_pix \in 1..MaxNPix, size \in SizeArgs :
        Return("make_gaussian_mass",
               [x |-> x, y |-> y, sigma |-> sigma, n_pix |-> n_pix, size |-> size],
               make_gaussian_mass(x, y, sigma, n_pix, size))

SeqsUpTo(S, n) == UNION {[1..k -> S] : k \in 0..n}

CallSie ==
    \E c \in 1..MaxC :
        \E x \in SeqsUpTo(0..(c - 1), MaxLen) :
            Return("sie", [x |-> x, c |-> c], sie(x, c))

-----------------------------------------------------------------------------
(* Stacking wrappers: lines 21-28 and 49-56, one action per statement.     *)
(* i is the 0-based Python index; sequences here are 1-based.              *)

StackFns == {"make_gaussian_stack", "make_gaussian_mass_stack"}

\* the single-instance generator each wrapper calls
GeneratorOf(fn) ==
    IF fn = "make_gaussian_stack" THEN "make_gaussian" ELSE "make_gaussian_mass"

Generator(fn, x, y, sigma, n_pix, size) ==
    IF fn = "make_gaussian_stack"
    THEN make_gaussian(x, y, sigma, n_pix, size)
    ELSE make_gaussian_mass(x, y, sigma, n_pix, size)

\* stack_size = min(len(xs), len(ys), len(sigmas))
StackSize(xs, ys, sigmas) == Min2(Len(xs), Min2(Len(ys), Len(sigmas)))

\* assert stack_size>0
AssertPassesGe(stack_size) == stack_size >= 0
AssertPasses(stack_size) == stack_size > 0

\* for i in range(1,stack_size)
LoopStartZero == 1 - 1
LoopStart == 1
LoopStopShort(stack_size) == stack_size - 1
LoopStop(stack_size) == stack_size

\* a layer of np.ndarray(shape=...) not yet assigned
Unwritten == <<>>

StackXs == {0, Q \div 2}
StackYs == {0}
StackSigmas == {Q \div 4, Q}
StackNPix == {2}
StackSizes == {None, <<1>>}

\* lines 22-24 (50-52)
StackEnter(fn) ==
    /\ pc = "idle"
    /\ \E xs \in SeqsUpTo(StackXs, MaxStack), ys \in SeqsUpTo(StackYs, MaxStack),
          sigmas \in SeqsUpTo(StackSigmas, MaxStack),
          n_pix \in StackNPix, size \in StackSizes :
        LET stack_size == StackSize(xs, ys, sigmas)
        IN  /\ op' = fn
            /\ inp' = [xs |-> xs, ys |-> ys, sigmas |-> sigmas,
                       n_pix |-> n_pix, size |-> size, stack_size |-> stack_size]
            /\ IF AssertPasses(stack_size)
               THEN /\ pc' = "first"
                    /\ Z' = [l \in 1..stack_size |-> Unwritten]
                    /\ exc' = exc
               ELSE /\ pc' = "raised"
                    /\ exc' = "AssertionError"
                    /\ Z' = Z
    /\ UNCHANGED <<out, i, loc, calls, nGrid>>
    /\ UNCHANGED saved

\* one call of the generator for index k: it builds its grid (line 13 / 39)
\* and returns X, Y and the field
Invoke(k) ==
    LET g == Generator(op, inp.xs[k + 1], inp.ys[k + 1], inp.sigmas[k + 1],
                       inp.n_pix, inp.size)
    IN  /\ Z' = [Z EXCEPT ![k + 1] = g.Z]
        /\ calls' = Append(calls, [fn |-> GeneratorOf(op), index |-> k,
                                   x |-> inp.xs[k + 1], y |-> inp.ys[k + 1],
                                   sigma |-> inp.sigmas[k + 1]])
        /\ nGrid' = nGrid + 1
        /\ loc' = IF pc = "first" THEN [X |-> g.X, Y |-> g.Y] ELSE loc

\* line 25 (53): X,Y,Z[0,:,:] = generator(xs[0], ys[0], sigmas[0], ...)
StackFirst ==
    /\ pc = "first"
    /\ Invoke(0)
    /\ i' = LoopStart
    /\ pc' = "loop"
    /\ UNCHANGED <<op, inp, out, exc, saved>>

\* lines 26-27 (54-55): _,_,Z[i,:,:] = generator(xs[i], ys[i], sigmas[i], ...)
StackLoop ==
    /\ pc = "loop"
    /\ i < LoopStop(inp.stack_size)
    /\ Invoke(i)
    /\ i' = i + 1
    /\ UNCHANGED <<op, pc, inp, out, exc, saved>>

\* line 28 (56): return X, Y, Z
StackReturn ==
    /\ pc = "loop"
    /\ ~(i < LoopStop(inp.stack_size))
    /\ out' = [X |-> loc.X, Y |-> loc.Y, Z |-> Z]
    /\ pc' = "returned"
    /\ UNCHANGED <<op, inp, exc, i, loc, Z, calls, nGrid, saved>>

-----------------------------------------------------------------------------
(* place_tile_in: lines 84-94.  Spatial indices are 0-based, b and f 1-based *)

\* a tile pixel: a nonzero value depending on every index
TilePixel(seed, b, f, r, c) == 1 + ((seed + b + 2 * f + 3 * r + 5 * c) % 4)

Tiles(seed, batch_size, features, dx) ==
    [b \in 1..batch_size |-> [f \in 1..features |->
        [r \in 0..(dx - 1) |-> [c \in 0..(dx - 1) |-> TilePixel(seed, b, f, r, c)]]]]

\* max_x = new_npx - dx
MaxXNoDx(new_npx, dx) == new_npx
MaxX(new_npx, dx) == new_npx - dx

\* np.random.randint(low, high): low inclusive, high exclusive
RandInt(low, high) == low..(high - 1)

\* A[b, :, px:px+dx, py:py+dx] = tile[b,...] for every b, on np.zeros
PlaceAll(tile, new_npx, dx, pos_x, pos_y) ==
    [b \in DOMAIN tile |-> [f \in DOMAIN tile[b] |->
        [r \in 0..(new_npx - 1) |-> [c \in 0..(new_npx - 1) |->
            IF /\ pos_x[b] <= r /\ r < pos_x[b] + dx
               /\ pos_y[b] <= c /\ c < pos_y[b] + dx
            THEN tile[b][f][r - pos_x[b]][c - pos_y[b]]
            ELSE 0]]]]

\* a slice that runs past the canvas is clipped and the assignment of a
\* dx-by-dx tile to it raises ValueError
Clipped(new_npx, dx, pos_x, pos_y) ==
    \E b \in DOMAIN pos_x : pos_x[b] + dx > new_npx \/ pos_y[b] + dx > new_npx

CallPlaceTileIn ==
    /\ pc = "idle"
    /\ \E batch_size \in 1..MaxBatch, features \in 1..2, dx \in 1..MaxTile,
          slack \in 1..MaxSlack, seed \in 0..1 :
        LET new_npx == dx + slack
            tile    == Tiles(seed, batch_size, features, dx)
            max_x   == MaxX(new_npx, dx)
        IN  \E pos_x \in [1..batch_size -> RandInt(0, max_x)],
               pos_y \in [1..batch_size -> RandInt(0, max_x)] :
                /\ op' = "place_tile_in"
                /\ inp' = [tile |-> tile, new_npx |-> new_npx]
                /\ loc' = [pos_x |-> pos_x, pos_y |-> pos_y]
                /\ IF Clipped(new_npx, dx, pos_x, pos_y)
                   THEN /\ pc' = "raised"
                        /\ exc' = "ValueError"
                        /\ out' = out
                   ELSE /\ pc' = "returned"
                        /\ exc' = exc
                        /\ out' = PlaceAll(tile, new_npx, dx, pos_x, pos_y)
    /\ UNCHANGED <<i, Z, calls, nGrid, saved>>

-----------------------------------------------------------------------------
(* mosaic_vis: lines 96-118.  All indices are 0-based.                     *)
(* nch = 0 is a 3-D batch (n, h, w); nch > 0 a 4-D batch (n, h, w, nch),    *)
(* whose pixels are sequences of nch values.                                *)

\* names bound in the module: the imports of lines 1-4 and the functions
ModuleNames ==
    {"np", "sio", "erf", "math",
     "make_gaussian", "make_gaussian_stack", "gaussian_mass", "make_gaussian_mass",
     "make_gaussian_mass_stack", "pruning_mask", "uniform_nsphere", "uniform_ncube",
     "normal_ncube", "sie", "place_tile_in", "mosaic_vis"}

ImgValue(seed, k, r, c, ch) == (seed * (k + 2 * r + 3 * c + ch)) % 5

Images(seed, n, h, w, nch) ==
    [k \in 0..(n - 1) |-> [r \in 0..(h - 1) |-> [c \in 0..(w - 1) |->
        IF nch = 0 THEN ImgValue(seed, k, r, c, 0)
        ELSE [ch \in 1..nch |-> ImgValue(seed, k, r, c, ch)]]]]

\* every scalar of the batch
Scalars(X, nch) ==
    UNION {UNION {UNION {IF nch = 0 THEN {X[k][r][c]}
                         ELSE {X[k][r][c][ch] : ch \in 1..nch}
                        : c \in DOMAIN X[k][r]} : r \in DOMAIN X[k]} : k \in DOMAIN X}

SetMin(S) == CHOOSE m \in S : \A v \in S : m <= v
SetMax(S) == CHOOSE m \in S : \A v \in S : v <= m

\* (v-xmin)/(xmax-xmin); 0/0 is NaN
Normalize(v, xmin, xmax) == IF xmax = xmin THEN NaN ELSE <<v - xmin, xmax - xmin>>

\* S = (X-xmin)/(xmax-xmin)
Normalized(X, nch) ==
    LET xmin == SetMin(Scalars(X, nch))
        xmax == SetMax(Scalars(X, nch))
    IN  [k \in DOMAIN X |-> [r \in DOMAIN X[k] |-> [c \in DOMAIN X[k][r] |->
            IF nch = 0 THEN Normalize(X[k][r][c], xmin, xmax)
            ELSE [ch \in 1..nch |-> Normalize(X[k][r][c][ch], xmin, xmax)]]]]

\* int(np.ceil(np.sqrt(np.float32(n))))
RECURSIVE CeilSqrtFrom(_, _)
CeilSqrtFrom(n, c) == IF c * c >= n THEN c ELSE CeilSqrtFrom(n, c + 1)
RECURSIVE FloorSqrtFrom(_, _)
FloorSqrtFrom(n, c) == IF (c + 1) * (c + 1) > n THEN c ELSE FloorSqrtFrom(n, c + 1)
ColumnsFloor(n) == FloorSqrtFrom(n, 0)
Columns(n) == CeilSqrtFrom(n, 0)

\* y = n // x; while x*y<n: y+=1
RECURSIVE RowSearch(_, _, _)
RowSearch(x, y, n) == IF x * y < n THEN RowSearch(x, y + 1, n) ELSE y
Rows(n, x) == RowSearch(x, n \div x, n)

ZeroPixel(nch) == IF nch = 0 THEN <<0, 1>> ELSE [ch \in 1..nch |-> <<0, 1>>]

\* j, i = k//x, k%x
TileRowNoWrap(k, x) == k
TileRow(k, x) == k \div x
TileCol(k, x) == k % x

\* img[j*pad+j*h:j*pad+j*h+h, i*pad+i*w:i*pad+i*w+w] = s
Paste(img, s, k, x, h, w, pad) ==
    LET top  == TileRow(k, x) * pad + TileRow(k, x) * h
        left == TileCol(k, x) * pad + TileCol(k, x) * w
    IN  [r \in DOMAIN img |-> [c \in DOMAIN img[r] |->
            IF top <= r /\ r < top + h /\ left <= c /\ c < left + w
            THEN s[r - top][c - left]
            ELSE img[r][c]]]

\* for k,s in enumerate(S): paste s, from k on
RECURSIVE PasteFrom(_, _, _, _, _, _, _, _)
PasteFrom(img, S, k, n, x, h, w, pad) ==
    IF k >= n THEN img
    ELSE PasteFrom(Paste(img, S[k], k, x, h, w, pad), S, k + 1, n, x, h, w, pad)

\* lines 97-114: the assembled mosaic and its grid
Mosaic(X, n, h, w, nch, pad) ==
    LET S == Normalized(X, nch)
        x == Columns(n)
        y == Rows(n, x)
        zeros == [r \in 0..(h * y + (y - 1) * pad - 1) |->
                    [c \in 0..(w * x + (x - 1) * pad - 1) |-> ZeroPixel(nch)]]
    IN  [x |-> x, y |-> y, S |-> S, img |-> PasteFrom(zeros, S, 0, n, x, h, w, pad)]

ImgShapes == {<<1, 1>>, <<1, 2>>, <<2, 1>>, <<8, 8>>}
SavePaths == {None, <<"mosaic.png">>}

CallMosaicVis ==
    /\ pc = "idle"
    /\ \E n \in 1..MaxImgs, hw \in ImgShapes, nch \in {0, 2}, pad \in 0..MaxPad,
          save_path \in SavePaths, seed \in 0..1 :
        LET X == Images(seed, n, hw[1], hw[2], nch)
            m == Mosaic(X, n, hw[1], hw[2], nch, pad)
        IN  /\ op' = "mosaic_vis"
            /\ inp' = [X |-> X, n |-> n, h |-> hw[1], w |-> hw[2], nch |-> nch,
                       pad |-> pad, save_path |-> save_path]
            /\ loc' = m
            /\ IF save_path # None /\ "imsave" \notin ModuleNames
               THEN \* line 117: imsave is not bound
                    /\ pc' = "raised"
                    /\ exc' = "NameError"
                    /\ out' = out
                    /\ saved' = saved
               ELSE /\ pc' = "returned"
                    /\ exc' = exc
                    /\ out' = m.img
                    /\ saved' = IF save_path # None
                                THEN saved \cup {<<save_path[1], m.img>>}
                                ELSE saved
    /\ UNCHANGED <<i, Z, calls, nGrid>>

Next ==
    \/ CallMakeGaussian
    \/ CallMakeGaussianMass
    \/ CallSie
    \/ \E fn \in StackFns : StackEnter(fn)
    \/ StackFirst
    \/ StackLoop
    \/ StackReturn
    \/ CallPlaceTileIn
    \/ CallMosaicVis

Spec == Init /\ [][Next]_vars

-----------------------------------------------------------------------------
(* Properties of the single-instance generators and of sie *)

IsGaussianCall == op \in {"make_gaussian", "make_gaussian_mass"} /\ pc = "returned"

\* deg of the call in ticks, from its arguments
ArgDeg == IF inp.size = None THEN inp.n_pix * Q ELSE inp.size[1] * Q

\* C3: make_gaussian_mass takes the closed-form branch exactly when
\* sigma < dpix, every cell then being gaussian_mass of that cell at the
\* returned X and Y with cell width dpix; for sigma >= dpix (sigma = dpix
\* included) it returns what make_gaussian returns for the same arguments,
\* not divided by its sum.
C3_MassBranch ==
    (op = "make_gaussian_mass" /\ pc = "returned") =>
        LET dpix == ArgDeg \div inp.n_pix
        IN  IF inp.sigma < dpix
            THEN \A r \in DOMAIN out.Z : \A c \in DOMAIN out.Z[r] :
                    out.Z[r][c] = <<gaussian_mass(out.X[r][c], out.Y[r][c], dpix, dpix,
                                                  inp.x, inp.y, inp.sigma), ZUnit>>
            ELSE /\ out = make_gaussian(inp.x, inp.y, inp.sigma, inp.n_pix, inp.size)
                 /\ \A r \in DOMAIN out.Z : \A c \in DOMAIN out.Z[r] :
                        out.Z[r][c][2] = ZUnit

\* a make_gaussian_mass call with sigma = dpix whose centre cell carries mass
C3_Witness ==
    /\ op = "make_gaussian_mass" /\ pc = "returned"
    /\ inp.sigma * inp.n_pix = ArgDeg
    /\ inp.n_pix = 1 /\ inp.x = 0 /\ inp.y = 0
    /\ out.Z[1][1][1] > 0

\* the sum of a returned field is exactly 1
SumIsOne(F) ==
    /\ \A r \in DOMAIN F : \A c \in DOMAIN F[r] : F[r][c] # NaN
    /\ SumSeq([r \in 1..Len(F) |-> SumSeq([c \in 1..Len(F[r]) |-> F[r][c][1]])])
         = F[1][1][2]

\* C4: for sigma < dpix/2 the field returned by make_gaussian sums to
\* exactly 1 for any centre, centres far off the grid included; for
\* sigma >= dpix/2 the field is returned as computed, not divided by its sum.
C4_SumIsOne ==
    (op = "make_gaussian" /\ pc = "returned") =>
        IF 2 * inp.sigma * inp.n_pix < ArgDeg
        THEN SumIsOne(out.Z)
        ELSE \A r \in DOMAIN out.Z : \A c \in DOMAIN out.Z[r] :
                out.Z[r][c][2] = ZUnit

\* C5: the grid of make_gaussian and make_gaussian_mass has n_pix distinct
\* samples per axis, the first at -size/2 + dpix/2, consecutive ones dpix =
\* size/n_pix apart, sample j the negative of sample n_pix-1-j; X and Y have
\* shape (n_pix, n_pix).
C5_Grid ==
    IsGaussianCall =>
        LET n == inp.n_pix
        IN  /\ Len(out.X) = n /\ Len(out.Y) = n
            /\ \A r \in 1..n : Len(out.X[r]) = n /\ Len(out.Y[r]) = n
            /\ \A r, c \in 1..n : out.X[r][c] = out.X[1][c] /\ out.Y[r][c] = out.Y[r][1]
            /\ \A j \in 1..n : out.Y[j][1] = -out.X[1][j]
            /\ 2 * n * out.X[1][1] = ArgDeg - n * ArgDeg
            /\ \A j \in 1..(n - 1) : n * (out.X[1][j + 1] - out.X[1][j]) = ArgDeg
            /\ \A j, k \in 1..n : j # k => out.X[1][j] # out.X[1][k]
            /\ \A j \in 1..n : out.X[1][j] = -out.X[1][n + 1 - j]

\* a grid of MaxNPix samples per axis over an explicit size
C5_Witness ==
    /\ IsGaussianCall
    /\ inp.n_pix = MaxNPix /\ inp.size # None
    /\ Len(out.X) = MaxNPix /\ out.X[1][1] < 0

\* C8: sie(x, c) with every x[i] in 0..c-1 has shape (len(x), c); row i
\* holds 1 at column x[i] and 0 elsewhere, so every row sums to 1.
C8_Sie ==
    (op = "sie" /\ pc = "returned") =>
        /\ Len(out) = Len(inp.x)
        /\ \A r \in 1..Len(inp.x) :
            /\ DOMAIN out[r] = 0..(inp.c - 1)
            /\ \A col \in 0..(inp.c - 1) :
                out[r][col] = IF col = inp.x[r] THEN 1 ELSE 0
            /\ Cardinality({col \in DOMAIN out[r] : out[r][col] = 1}) = 1
            /\ \A col \in DOMAIN out[r] : out[r][col] \in {0, 1}

\* sie([2], c=5) returned [[0,0,1,0,0]]
C8_Witness ==
    /\ op = "sie" /\ pc = "returned"
    /\ inp.x = <<2>> /\ inp.c = 5
    /\ out = <<[col \in 0..4 |-> IF col = 2 THEN 1 ELSE 0]>>

-----------------------------------------------------------------------------
(* Properties of the stacking wrappers *)

IsStack == op \in StackFns

ShortestLen == Min2(Len(inp.xs), Min2(Len(inp.ys), Len(inp.sigmas)))

\* the field the single-instance generator returns for index k of the call
SingleField(k) ==
    IF op = "make_gaussian_stack"
    THEN make_gaussian(inp.xs[k], inp.ys[k], inp.sigmas[k], inp.n_pix, inp.size).Z
    ELSE make_gaussian_mass(inp.xs[k], inp.ys[k], inp.sigmas[k], inp.n_pix, inp.size).Z

\* C1: a stack call whose shortest input has length k >= 1 returns exactly
\* k layers, layer i being the field of the single-instance generator for
\* (xs[i], ys[i], sigmas[i]) with the same n_pix and size; longer inputs are
\* cut at k and no layer is left unwritten.
C1_StackLayers ==
    (IsStack /\ pc = "returned") =>
        /\ ShortestLen >= 1
        /\ Len(out.Z) = ShortestLen
        /\ \A k \in 1..ShortestLen :
            /\ out.Z[k] # Unwritten
            /\ out.Z[k] = SingleField(k)

\* a returned stack of two different layers, cut from an xs of three
C1_Witness ==
    /\ IsStack /\ pc = "returned"
    /\ Len(inp.xs) = 3 /\ ShortestLen = 2
    /\ Len(out.Z) = 2
    /\ out.Z[1] # out.Z[2]

\* C2: a stack call with an empty xs, ys or sigmas fails with an assertion,
\* before any call of the generator and without a result.
C2_EmptyAsserts ==
    (IsStack /\ (Len(inp.xs) = 0 \/ Len(inp.ys) = 0 \/ Len(inp.sigmas) = 0)) =>
        /\ pc = "raised"
        /\ exc = "AssertionError"
        /\ calls = <<>>
        /\ nGrid = 0
        /\ out = NoResult

\* a failed call whose ys alone is empty
C2_Witness ==
    /\ IsStack /\ pc = "raised" /\ exc = "AssertionError"
    /\ Len(inp.xs) > 0 /\ Len(inp.ys) = 0 /\ Len(inp.sigmas) > 0

\* the generator was called once per index, in the order 0, 1, ..., k-1
CalledInOrder ==
    /\ Len(calls) = ShortestLen
    /\ \A k \in 1..Len(calls) :
        calls[k] = [fn |-> GeneratorOf(op), index |-> k - 1, x |-> inp.xs[k],
                    y |-> inp.ys[k], sigma |-> inp.sigmas[k]]

\* C9 as stated: a returned stack call invoked the generator once per index
\* in input order and computed the coordinate grid once for all layers.
C9_GridOnce ==
    (IsStack /\ pc = "returned") => (CalledInOrder /\ nGrid = 1)

\* C9 amended: a returned stack call invoked the generator once per index in
\* input order; every invocation computed the grid, k computations for k
\* layers, and the X, Y returned are those of the invocation for index 0.
C9_GridPerCall ==
    (IsStack /\ pc = "returned") =>
        /\ CalledInOrder
        /\ nGrid = ShortestLen
        /\ LET g == Grid(inp.n_pix, inp.size)
           IN  out.X = g.Xm /\ out.Y = Negate(g.Ym)

\* a returned stack of two layers: two invocations, two grids
C9_Witness ==
    /\ IsStack /\ pc = "returned"
    /\ Len(calls) = 2 /\ calls[1].index = 0 /\ calls[2].index = 1
    /\ nGrid = 2

-----------------------------------------------------------------------------
(* Properties of place_tile_in and mosaic_vis *)

\* C7: place_tile_in on tiles of width d with new_npx > d returns, for any
\* offsets the random source draws, a canvas of shape (batch, features,
\* new_npx, new_npx) that holds tile b unchanged in one d-by-d block lying
\* inside the canvas and is zero outside that block.
C7_TilePlaced ==
    (op = "place_tile_in") =>
        LET tile == inp.tile
            npx  == inp.new_npx
            d    == Cardinality(DOMAIN tile[1][1])
        IN  /\ pc = "returned"
            /\ DOMAIN out = DOMAIN tile
            /\ \A b \in DOMAIN tile :
                /\ DOMAIN out[b] = DOMAIN tile[b]
                /\ \A f \in DOMAIN tile[b] :
                    /\ DOMAIN out[b][f] = 0..(npx - 1)
                    /\ \A r \in 0..(npx - 1) : DOMAIN out[b][f][r] = 0..(npx - 1)
                /\ \E px, py \in 0..(npx - d) :
                    \A f \in DOMAIN tile[b] : \A r, c \in 0..(npx - 1) :
                        out[b][f][r][c] =
                            IF px <= r /\ r < px + d /\ py <= c /\ c < py + d
                            THEN tile[b][f][r - px][c - py]
                            ELSE 0

\* two tiles of one batch placed at different offsets in both axes
C7_Witness ==
    /\ op = "place_tile_in" /\ pc = "returned"
    /\ Cardinality(DOMAIN inp.tile) = 2
    /\ loc.pos_x[1] # loc.pos_x[2] /\ loc.pos_y[1] # loc.pos_y[2]
    /\ loc.pos_x[1] # loc.pos_y[1]
    /\ out[1][1][loc.pos_x[1]][loc.pos_y[1]] = inp.tile[1][1][0][0]

\* C6: mosaic_vis on n >= 1 images of h by w with pad >= 0 uses
\* columns = ceil(sqrt(n)) and the smallest rows with columns*rows >= n,
\* returns an image of height h*rows + (rows-1)*pad and width
\* w*columns + (columns-1)*pad, and puts image k in the block at grid row
\* k // columns and grid column k % columns, every block inside the image
\* and no two blocks overlapping.
C6_Mosaic ==
    (op = "mosaic_vis" /\ pc = "returned") =>
        LET n == inp.n
            h == inp.h
            w == inp.w
            pad == inp.pad
            cols == loc.x
            rows == loc.y
            H == h * rows + (rows - 1) * pad
            W == w * cols + (cols - 1) * pad
            S == Normalized(inp.X, inp.nch)
            top(k) == (k \div cols) * (h + pad)
            left(k) == (k % cols) * (w + pad)
        IN  /\ cols * cols >= n /\ (cols - 1) * (cols - 1) < n
            /\ cols * rows >= n /\ cols * (rows - 1) < n
            /\ DOMAIN out = 0..(H - 1)
            /\ \A r \in 0..(H - 1) : DOMAIN out[r] = 0..(W - 1)
            /\ \A k \in 0..(n - 1) :
                /\ top(k) + h <= H /\ left(k) + w <= W
                /\ \A r \in 0..(h - 1) : \A c \in 0..(w - 1) :
                    out[top(k) + r][left(k) + c] = S[k][r][c]
            /\ \A k1, k2 \in 0..(n - 1) :
                k1 # k2 =>
                    \/ top(k1) + h <= top(k2) \/ top(k2) + h <= top(k1)
                    \/ left(k1) + w <= left(k2) \/ left(k2) + w <= left(k1)

\* 4 images of 8x8 with pad 0 returned as a 16x16 image in a 2x2 grid
C6_Witness ==
    /\ op = "mosaic_vis" /\ pc = "returned"
    /\ inp.n = 4 /\ inp.h = 8 /\ inp.w = 8 /\ inp.pad = 0 /\ inp.nch = 0
    /\ loc.x = 2 /\ loc.y = 2
    /\ DOMAIN out = 0..15 /\ DOMAIN out[0] = 0..15

\* C10: mosaic_vis with a save_path persists the assembled mosaic to that
\* path and then returns it; with save_path None it saves nothing and
\* returns the mosaic.
C10_SaveThenReturn ==
    (op = "mosaic_vis") =>
        /\ pc = "returned"
        /\ out = loc.img
        /\ IF inp.save_path # None
           THEN saved = {<<inp.save_path[1], loc.img>>}
           ELSE saved = {}

====
